---- MODULE Spec2Model ----
(***************************************************************************)
(* Model of the Final-Vertex data pipeline: the serverless relay           *)
(* (src/proxy.js and its sibling copy src/unnamed/part_000) and the        *)
(* client orchestration routine fetchFinancialData (the two copies of      *)
(* App in src/App.jsx).                                                    *)
(***************************************************************************)
EXTENDS Integers, Sequences, FiniteSets, TLC

VARIABLES
    \* ---- relay: one invocation of handler(req, res) ----
    relayFile,      \* which copy of the handler is deployed
    hpc,            \* position of the invocation: idle / awaitFetch / awaitBody / done
    reqMethod,      \* req.method
    reqUrl,         \* req.query.url as received (already decoded once by the platform)
    targetUrl,      \* the handler's local targetUrl
    outbound,       \* URLs handed to fetch() by this invocation, in order
    upHead,         \* head of the upstream response once fetch() resolved
    upBody,         \* body text of the upstream response once it was read
    upFail,         \* which awaited promise rejected: none / fetch / body
    resStatus,      \* status the handler answered with (0: not answered yet)
    resKind,        \* which return statement answered
    resData,        \* the JSON handed to res.json() by the success return
    \* ---- client: the App component and its fetchFinancialData invocations ----
    appCopy,        \* which copy of App is built
    currentTicker,  \* useState: currentTicker
    loading,        \* useState: loading
    error,          \* useState: error
    data,           \* useState: data
    domDisabled,    \* the disabled attribute of the submit button as last rendered
    mounted,        \* the mount effect has run
    started,        \* number of fetchFinancialData invocations that passed the empty check
    qpc,            \* per invocation: idle / search / fanout / done
    qseq,           \* per invocation: its rank among the started invocations
    qticker,        \* per invocation: the ticker it fetches
    qsearch,        \* per invocation: what the search call came back with
    qcat,           \* per invocation: its local categoria
    qslot,          \* per invocation: the six safeFetch promises
    dataWriter,     \* the invocation whose setData call was the last one
    \* ---- one call of a normalizer, outside any query ----
    callFn,         \* the function called: none / normalizeGenericChartData / normalizeProventos
    callArg,        \* its argument
    callRet         \* what the call did: threw, or the points it returned

relayVars == <<relayFile, hpc, reqMethod, reqUrl, targetUrl, outbound,
               upHead, upBody, upFail, resStatus, resKind, resData>>

appVars == <<appCopy, currentTicker, loading, error, data, domDisabled, mounted,
             started, qpc, qseq, qticker, qsearch, qcat, qslot, dataWriter>>

callVars == <<callFn, callArg, callRet>>

vars == <<relayVars, appVars, callVars>>

(***************************************************************************)
(* Strings are sequences of atoms; an atom is a substring that the         *)
(* operations below never split.                                           *)
(***************************************************************************)
Scheme     == "https://"
EncScheme  == "https%3A%2F%2F"          \* encodeURIComponent("https://")
HostGood   == "statusinvest.com.br"
HostEvil   == "evil.example.com"
Slash      == "/"
EncSlash   == "%2F"
EncPercent == "%25"
Percent    == "%"
Letter     == "a"

\* bounds of the enumerated inputs
MaxUrlRest == 3
MaxBodyLen == 2

RECURSIVE SeqsUpTo(_, _)
SeqsUpTo(S, n) ==
    IF n = 0 THEN {<<>>}
    ELSE LET shorter == SeqsUpTo(S, n - 1)
         IN  shorter \cup {Append(s, a) : s \in {t \in shorter : Len(t) = n - 1}, a \in S}

UrlRestAtoms == {HostGood, HostEvil, Slash, EncSlash, EncPercent, Percent, Letter}

\* values of req.query.url: absent/empty (<<>>), or an optional scheme followed
\* by up to MaxUrlRest atoms
UrlParams ==
    SeqsUpTo(UrlRestAtoms, MaxUrlRest)
      \cup {<<p>> \o r : p \in {Scheme, EncScheme}, r \in SeqsUpTo(UrlRestAtoms, MaxUrlRest)}

\* ---- decodeURIComponent -------------------------------------------------
\* A lone "%" is never followed by two hex digits in these strings
\* (every atom after it starts with a non-hex character): URIError.
DecodeThrows(s) == \E i \in 1..Len(s) : s[i] = Percent

DecodeAtom(a) ==
    CASE a = EncSlash   -> Slash
      [] a = EncPercent -> Percent
      [] a = EncScheme  -> Scheme
      [] OTHER          -> a

decodeURIComponent(s) == [i \in 1..Len(s) |-> DecodeAtom(s[i])]

\* ---- new URL(s) ---------------------------------------------------------
RECURSIVE SkipSlashes(_)
SkipSlashes(s) == IF s # <<>> /\ Head(s) = Slash THEN SkipSlashes(Tail(s)) ELSE s

RECURSIVE UpToSlash(_)
UpToSlash(s) == IF s = <<>> \/ Head(s) = Slash THEN <<>> ELSE <<Head(s)>> \o UpToSlash(Tail(s))

\* the authority of an https URL: extra slashes after the scheme are skipped,
\* the host runs up to the next "/"
HostAtoms(s) == UpToSlash(SkipSlashes(Tail(s)))

\* forbidden in a host: "%" and whatever "%2F"/"%25" percent-decode to
HostAtomOk(a) == a \in {HostGood, HostEvil, Letter}

\* new URL(s) does not throw
UrlParses(s) ==
    /\ s # <<>>
    /\ Head(s) = Scheme
    /\ HostAtoms(s) # <<>>
    /\ \A i \in 1..Len(HostAtoms(s)) : HostAtomOk(HostAtoms(s)[i])

\* parsed.hostname.endsWith('statusinvest.com.br')
HostnameAllowed(s) == LET h == HostAtoms(s) IN h[Len(h)] = HostGood

\* ---- upstream responses -------------------------------------------------
UpStatuses   == {200, 404, 503}
ContentTypes == {"application/json", "text/html; charset=utf-8", ""}
Sp      == " "
Doctype == "<!"
HtmlTag == "<html"
JsonObj == "{}"
JsonArr == "[]"
Garbage == "x"
BodyAtoms == {Sp, Doctype, HtmlTag, JsonObj, JsonArr, Garbage}
Bodies  == SeqsUpTo(BodyAtoms, MaxBodyLen)

NoHead == [status |-> 0, contentType |-> "none"]
NoBody == <<"unread">>

ResponseOk(h) == h.status >= 200 /\ h.status <= 299

\* contentType.includes('text/html')
IncludesTextHtml(ct) == ct = "text/html; charset=utf-8"

RECURSIVE trimStart(_)
trimStart(b) == IF b # <<>> /\ Head(b) = Sp THEN trimStart(Tail(b)) ELSE b

RECURSIVE trimEnd(_)
trimEnd(b) == IF b # <<>> /\ b[Len(b)] = Sp THEN trimEnd(SubSeq(b, 1, Len(b) - 1)) ELSE b

startsWith(b, a) == b # <<>> /\ Head(b) = a

\* JSON.parse(b) does not throw: one JSON value, whitespace around it allowed
JsonParses(b) ==
    LET core == trimEnd(trimStart(b))
    IN  Len(core) = 1 /\ core[1] \in {JsonObj, JsonArr}

\* JSON.parse(b)
JsonParse(b) == trimEnd(trimStart(b))[1]

UpHeads == [status : UpStatuses, contentType : ContentTypes]

(***************************************************************************)
(* The relay handler.  ProxyJs is src/proxy.js, Part000 is the copy in     *)
(* src/unnamed/part_000.                                                   *)
(***************************************************************************)
ProxyJs == "proxy.js"
Part000 == "part_000"
RelayFiles == {ProxyJs, Part000}
Methods == {"GET", "OPTIONS"}

\* the assignment to targetUrl inside the validation try block
\* proxy.js:18  targetUrl = url        part_000:23  targetUrl = decodeURIComponent(url)
TargetOf(file, url) == IF file = ProxyJs THEN url ELSE decodeURIComponent(url)

\* the validation try block throws (URIError of the decoding, TypeError of new URL)
ValidationThrows(file, url) ==
    \/ file = Part000 /\ DecodeThrows(url)
    \/ ~UrlParses(TargetOf(file, url))

\* the challenge test of proxy.js:58-63
IsChallenge(h, b) ==
    \/ ~ResponseOk(h)
    \/ IncludesTextHtml(h.contentType)
    \/ startsWith(trimStart(b), Doctype)
    \/ startsWith(trimStart(b), HtmlTag)

Answer(status, kind, json) ==
    /\ resStatus' = status
    /\ resKind' = kind
    /\ resData' = json
    /\ hpc' = "done"

\* handler(req, res) up to its first await; an invocation carries no state
\* over from an earlier one, so a behaviour follows a single invocation
HandlerInvoke(m, u) ==
    /\ hpc = "idle"
    /\ reqMethod' = m
    /\ reqUrl' = u
    /\ upHead' = NoHead
    /\ upBody' = NoBody
    /\ upFail' = "none"
    /\ UNCHANGED <<relayFile, appVars, callVars>>
    /\ IF m = "OPTIONS"
          THEN Answer(200, "options", "none") /\ targetUrl' = <<>> /\ outbound' = <<>>
       ELSE IF u = <<>>
          THEN Answer(400, "missingUrl", "none") /\ targetUrl' = <<>> /\ outbound' = <<>>
       ELSE IF ValidationThrows(relayFile, u)
          THEN /\ Answer(400, "invalidUrl", "none")
               /\ targetUrl' = IF relayFile = Part000 /\ DecodeThrows(u) THEN <<>> ELSE TargetOf(relayFile, u)
               /\ outbound' = <<>>
       ELSE IF ~HostnameAllowed(TargetOf(relayFile, u))
          THEN Answer(403, "forbidden", "none") /\ targetUrl' = TargetOf(relayFile, u) /\ outbound' = <<>>
       ELSE /\ targetUrl' = TargetOf(relayFile, u)
            /\ outbound' = <<TargetOf(relayFile, u)>>
            /\ hpc' = "awaitFetch"
            /\ resStatus' = 0
            /\ resKind' = "none"
            /\ resData' = "none"

\* await fetch(targetUrl, ...) rejects: the outer catch answers 500
FetchRejects ==
    /\ hpc = "awaitFetch"
    /\ upFail' = "fetch"
    /\ Answer(500, "catch", "none")
    /\ UNCHANGED <<relayFile, reqMethod, reqUrl, targetUrl, outbound, upHead, upBody, appVars, callVars>>

\* await fetch(targetUrl, ...) resolves with the response head h
FetchResolves(h) ==
    /\ hpc = "awaitFetch"
    /\ upHead' = h
    /\ UNCHANGED <<relayFile, reqMethod, reqUrl, targetUrl, outbound, upBody, upFail, appVars, callVars>>
    /\ IF relayFile = ProxyJs
          THEN \* proxy.js:51-55 reads the body before any test
               /\ hpc' = "awaitBody"
               /\ UNCHANGED <<resStatus, resKind, resData>>
       ELSE IF ~ResponseOk(h)
          THEN Answer(h.status, "upstreamStatus", "none")      \* part_000:55-60
       ELSE IF IncludesTextHtml(h.contentType)
          THEN Answer(503, "blocked", "none")                  \* part_000:65-70
       ELSE /\ hpc' = "awaitBody"                              \* part_000:72
            /\ UNCHANGED <<resStatus, resKind, resData>>

\* reading the body (response.text() / response.json()) rejects
BodyRejects ==
    /\ hpc = "awaitBody"
    /\ upFail' = "body"
    /\ Answer(500, "catch", "none")
    /\ UNCHANGED <<relayFile, reqMethod, reqUrl, targetUrl, outbound, upHead, upBody, appVars, callVars>>

\* the body b has been read
BodyResolves(b) ==
    /\ hpc = "awaitBody"
    /\ upBody' = b
    /\ UNCHANGED <<relayFile, reqMethod, reqUrl, targetUrl, outbound, upHead, upFail, appVars, callVars>>
    /\ IF relayFile = ProxyJs
          THEN IF IsChallenge(upHead, b) THEN Answer(503, "blocked", "none")
               ELSE IF ~JsonParses(b) THEN Answer(502, "invalidJson", "none")
               ELSE Answer(200, "success", JsonParse(b))
       ELSE \* part_000:72 response.json() rejects on a body that is not JSON
            IF ~JsonParses(b) THEN Answer(500, "catch", "none")
            ELSE Answer(200, "success", JsonParse(b))

RelayIdle ==
    /\ hpc = "idle"
    /\ reqMethod = "none"
    /\ reqUrl = <<>>
    /\ targetUrl = <<>>
    /\ outbound = <<>>
    /\ upHead = NoHead
    /\ upBody = NoBody
    /\ upFail = "none"
    /\ resStatus = 0
    /\ resKind = "none"
    /\ resData = "none"


(***************************************************************************)
(* JSON values as the client sees them.  A value is a record tagged by t;  *)
(* strings are sequences of atoms.                                         *)
(***************************************************************************)
JNull     == [t |-> "null"]
JUndef    == [t |-> "undefined"]
JNaN      == [t |-> "nan"]
JBool(b)  == [t |-> "bool", b |-> b]
JNum(n)   == [t |-> "num", n |-> n]
JStr(s)   == [t |-> "str", s |-> s]
JArr(a)   == [t |-> "arr", a |-> a]
JObj(o)   == [t |-> "obj", o |-> o]
EmptyObj  == JObj(<<>>)
EmptyArr  == JArr(<<>>)

\* !v is false
Truthy(v) ==
    CASE v.t \in {"null", "undefined", "nan"} -> FALSE
      [] v.t = "bool" -> v.b
      [] v.t = "num"  -> v.n # 0
      [] v.t = "str"  -> v.s # <<>>
      [] OTHER        -> TRUE

\* v === null || v === undefined
Nullish(v) == v.t \in {"null", "undefined"}

\* v.k throws a TypeError
GetThrows(v) == Nullish(v)

\* v.k for a property name k (not an index)
Get(v, k) ==
    CASE v.t = "obj" -> IF k \in DOMAIN v.o THEN v.o[k] ELSE JUndef
      [] v.t = "arr" -> IF k = "length" THEN JNum(Len(v.a)) ELSE JUndef
      [] v.t = "str" -> IF k = "length" THEN JNum(Len(v.s)) ELSE JUndef
      [] OTHER       -> JUndef

\* v[i] for an index i counted from 0
At(v, i) == IF v.t = "arr" /\ i + 1 \in 1..Len(v.a) THEN v.a[i + 1] ELSE JUndef

\* a || b   and   a ?? b
OrElse(a, b)   == IF Truthy(a) THEN a ELSE b
Coalesce(a, b) == IF Nullish(a) THEN b ELSE a

IsArray(v) == v.t = "arr"

\* Object.keys(v).length
KeyCount(v) ==
    CASE v.t = "obj" -> Cardinality(DOMAIN v.o)
      [] v.t = "arr" -> Len(v.a)
      [] v.t = "str" -> Len(v.s)
      [] OTHER       -> 0

\* decimal digits of a natural number, as atoms
DigitAtom(d) == <<"0", "1", "2", "3", "4", "5", "6", "7", "8", "9">>[d + 1]

RECURSIVE NatToStr(_)
NatToStr(n) == IF n < 10 THEN <<DigitAtom(n)>> ELSE Append(NatToStr(n \div 10), DigitAtom(n % 10))

\* String(v)
ToStr(v) ==
    CASE v.t = "str"  -> v.s
      [] v.t = "num"  -> IF v.n >= 0 THEN NatToStr(v.n) ELSE <<"-">> \o NatToStr(-v.n)
      [] v.t = "null" -> <<"null">>
      [] v.t = "undefined" -> <<"undefined">>
      [] v.t = "nan"  -> <<"NaN">>
      [] v.t = "bool" -> IF v.b THEN <<"true">> ELSE <<"false">>
      [] v.t = "arr"  -> IF v.a = <<>> THEN <<>> ELSE <<"[array]">>
      [] OTHER        -> <<"[object Object]">>

DigitValue(a) ==
    CASE a = "0" -> 0 [] a = "1" -> 1 [] a = "2" -> 2 [] a = "3" -> 3 [] a = "4" -> 4
      [] a = "5" -> 5 [] a = "6" -> 6 [] a = "7" -> 7 [] a = "8" -> 8 [] a = "9" -> 9
      [] OTHER -> -1

AllDigits(s) == s # <<>> /\ \A i \in 1..Len(s) : DigitValue(s[i]) >= 0

RECURSIVE DigitsToNat(_)
DigitsToNat(s) == IF s = <<>> THEN 0 ELSE 10 * DigitsToNat(SubSeq(s, 1, Len(s) - 1)) + DigitValue(s[Len(s)])

\* Number(v).  A string is numeric when it is empty or all digits (the
\* strings of the model carry no sign, point, exponent or blank); an array
\* converts through its string: [] is 0, [x] is Number(String(x)) with
\* null and undefined printed as '', a longer array is NaN
RECURSIVE ToNumber(_)
ToNumber(v) ==
    CASE v.t = "num"  -> v
      [] v.t = "null" -> JNum(0)
      [] v.t = "bool" -> JNum(IF v.b THEN 1 ELSE 0)
      [] v.t = "str"  -> IF v.s = <<>> THEN JNum(0)
                         ELSE IF AllDigits(v.s) THEN JNum(DigitsToNat(v.s))
                         ELSE JNaN
      [] v.t = "arr"  -> IF v.a = <<>> THEN JNum(0)
                         ELSE IF Len(v.a) > 1 THEN JNaN
                         ELSE IF Nullish(v.a[1]) THEN JNum(0)
                         ELSE IF v.a[1].t \in {"num", "str", "arr"} THEN ToNumber(v.a[1])
                         ELSE JNaN
      [] OTHER        -> JNaN

(***************************************************************************)
(* The client: src/App.jsx holds two copies of App.                        *)
(* App1 is the copy of lines 1-400, App2 the copy of lines 402-772.        *)
(***************************************************************************)
App1 == 1
App2 == 2
AppCopies == {App1, App2}

\* a normalizer either throws or returns its points
Threw   == [threw |-> TRUE, pts |-> <<>>]
Pts(ps) == [threw |-> FALSE, pts |-> ps]

\* item.value ?? item.v ?? 0  (App1)      item.value || item.v || 0  (App2)
PickValue(copy, a, b) ==
    IF copy = App1 THEN Coalesce(Coalesce(a, b), JNum(0))
    ELSE OrElse(OrElse(a, b), JNum(0))

\* seriesData[index] without its default
PickOneNoDefault(copy, a) == a

\* seriesData[index] ?? 0  (App1)      seriesData[index] || 0  (App2)
PickOne(copy, a) == IF copy = App1 THEN Coalesce(a, JNum(0)) ELSE OrElse(a, JNum(0))

\* v[i] of an array or a string, i counted from 0
ElemAt(v, i) ==
    CASE v.t = "arr" -> At(v, i)
      [] v.t = "str" -> IF i + 1 \in 1..Len(v.s) THEN JStr(<<v.s[i + 1]>>) ELSE JUndef
      [] OTHER       -> JUndef

\* v.length > 0
LengthPositive(v) == Get(v, "length").t = "num" /\ Get(v, "length").n > 0

\* first shape: an array whose first element has a date field
DatedPoint(copy, item) ==
    [name  |-> OrElse(OrElse(Get(item, "date"), Get(item, "d")), Get(item, "year")),
     value |-> ToNumber(PickValue(copy, Get(item, "value"), Get(item, "v")))]

\* second shape: categories zipped with series[0].data
ZipPoint(copy, cat, seriesData, index) ==
    [name  |-> JStr(ToStr(cat)),
     value |-> ToNumber(PickOne(copy, ElemAt(seriesData, index)))]

normalizeGenericChartData(copy, raw) ==
    IF ~Truthy(raw) THEN Pts(<<>>)
    ELSE IF IsArray(raw) /\ Len(raw.a) > 0 /\ GetThrows(raw.a[1]) THEN Threw
    ELSE IF IsArray(raw) /\ Len(raw.a) > 0
            /\ Truthy(OrElse(Get(raw.a[1], "date"), Get(raw.a[1], "d")))
      THEN IF \E i \in 1..Len(raw.a) : GetThrows(raw.a[i]) THEN Threw
           ELSE Pts([i \in 1..Len(raw.a) |-> DatedPoint(copy, raw.a[i])])
    ELSE IF Truthy(Get(raw, "categories")) /\ Truthy(Get(raw, "series"))
            /\ LengthPositive(Get(raw, "series"))
      THEN LET categories == Get(raw, "categories")
               first      == ElemAt(Get(raw, "series"), 0)
           IN  IF GetThrows(first) THEN Threw                 \* data.series[0].data
               ELSE IF ~IsArray(categories) THEN Threw        \* categories.map
               ELSE IF Len(categories.a) > 0 /\ GetThrows(Get(first, "data")) THEN Threw
               ELSE Pts([i \in 1..Len(categories.a) |->
                            ZipPoint(copy, categories.a[i], Get(first, "data"), i - 1)])
    ELSE Pts(<<>>)

\* ---- dates of the earnings records --------------------------------------
RECURSIVE SplitOn(_, _)
SplitOn(s, sep) ==
    IF \A i \in 1..Len(s) : s[i] # sep THEN <<s>>
    ELSE LET k == CHOOSE i \in 1..Len(s) : s[i] = sep /\ \A j \in 1..(i - 1) : s[j] # sep
         IN  <<SubSeq(s, 1, k - 1)>> \o SplitOn(SubSeq(s, k + 1, Len(s)), sep)

\* new Date("YYYY-MM-DD").getTime() of the three parts, as a number that
\* grows with the date and is 0 at the epoch, 1970-01-01 (year, month, day
\* in decimal); NaN for an invalid date
Epoch == 19700101

DateTime(y, m, d) ==
    IF /\ AllDigits(y) /\ Len(y) = 4
       /\ AllDigits(m) /\ Len(m) = 2 /\ DigitsToNat(m) \in 1..12
       /\ AllDigits(d) /\ Len(d) = 2 /\ DigitsToNat(d) \in 1..31
    THEN JNum(DigitsToNat(y) * 10000 + DigitsToNat(m) * 100 + DigitsToNat(d) - Epoch)
    ELSE JNaN

\* new Date(s).getTime() of a string that is not DD/MM/YYYY
DateOfString(s) ==
    LET parts == SplitOn(s, "-")
    IN  IF Len(parts) = 3 THEN DateTime(parts[1], parts[2], parts[3]) ELSE JNaN

\* the sort key of a record name; App1 lines 57-62, App2 line 455
parseThrows(copy, name) ==
    IF copy = App1 THEN Truthy(name) /\ name.t # "str"       \* d.split
    ELSE name.t # "str"                                      \* a.name.split

\* DD/MM/YYYY read as month/day/year
parseMonthFirst(copy, name) ==
    IF copy = App1 /\ ~Truthy(name) THEN JNum(0)
    ELSE LET parts == SplitOn(name.s, "/")
         IN  IF Len(parts) = 3 THEN DateTime(parts[3], parts[1], parts[2])
             ELSE DateOfString(name.s)

parse(copy, name) ==
    IF copy = App1 /\ ~Truthy(name) THEN JNum(0)
    ELSE LET parts == SplitOn(name.s, "/")
         IN  IF Len(parts) = 3 THEN DateTime(parts[3], parts[2], parts[1])
             ELSE DateOfString(name.s)

\* the comparator's result is negative
ComesBefore(copy, a, b) ==
    LET ka == parse(copy, a.name)
        kb == parse(copy, b.name)
    IN  ka.t = "num" /\ kb.t = "num" /\ ka.n < kb.n

\* Array.prototype.sort: stable insertion by the comparator
RECURSIVE InsertSorted(_, _, _)
InsertSorted(copy, sorted, x) ==
    IF sorted = <<>> THEN <<x>>
    ELSE IF ComesBefore(copy, x, sorted[Len(sorted)])
           THEN Append(InsertSorted(copy, SubSeq(sorted, 1, Len(sorted) - 1), x), sorted[Len(sorted)])
         ELSE Append(sorted, x)

RECURSIVE SortByDate(_, _)
SortByDate(copy, ps) ==
    IF ps = <<>> THEN <<>>
    ELSE InsertSorted(copy, SortByDate(copy, SubSeq(ps, 1, Len(ps) - 1)), ps[Len(ps)])

EarningsPoint(item) ==
    [name  |-> OrElse(Get(item, "ed"), Get(item, "pd")),
     value |-> ToNumber(OrElse(Get(item, "v"), JNum(0))),
     type  |-> Get(item, "et")]

normalizeProventos(copy, raw) ==
    IF ~Truthy(raw) \/ ~Truthy(Get(raw, "assetEarningsModels")) THEN Pts(<<>>)
    ELSE LET models == Get(raw, "assetEarningsModels")
         IN  IF ~IsArray(models) THEN Threw                                   \* .map
             ELSE IF \E i \in 1..Len(models.a) : GetThrows(models.a[i]) THEN Threw
             ELSE LET mapped == [i \in 1..Len(models.a) |-> EarningsPoint(models.a[i])]
                  IN  IF Len(mapped) >= 2 /\ \E i \in 1..Len(mapped) : parseThrows(copy, mapped[i].name)
                        THEN Threw
                      ELSE Pts(SortByDate(copy, mapped))

\* ---- tickers ------------------------------------------------------------
\* a ticker is a sequence of characters
toUpperChar(c) ==
    CASE c = "m" -> "M" [] c = "x" -> "X" [] c = "r" -> "R" [] c = "f" -> "F"
      [] c = "p" -> "P" [] c = "e" -> "E" [] c = "t" -> "T"
      [] OTHER -> c

toUpperCase(s) == [i \in 1..Len(s) |-> toUpperChar(s[i])]

trim(s) == trimEnd(trimStart(s))

\* const ticker = tickerRaw.trim().toUpperCase()  (App1:144); App2 uses its argument as is
TickerOf(copy, raw) == IF copy = App1 THEN toUpperCase(trim(raw)) ELSE raw

\* ---- classification of the search result --------------------------------
FiiMarker    == "fundos-imobiliarios"
FiagroMarker == "fiagros"
AcoesMarker  == "acoes"

\* urlStr.includes(marker), urlStr a string of atoms
includes(str, marker) == \E i \in 1..Len(str) : str[i] = marker

\* searchData[0].url || ''
UrlStrOf(searchData) == OrElse(Get(searchData.a[1], "url"), JStr(<<>>))

\* the block App1:156-162 / App2:534-540 throws a TypeError
ClassifyThrows(searchData) ==
    /\ IsArray(searchData)
    /\ Len(searchData.a) > 0
    /\ \/ GetThrows(searchData.a[1])            \* searchData[0].url
       \/ UrlStrOf(searchData).t # "str"        \* urlStr.includes is not a function

\* the agribusiness marker tested before the real-estate marker
ClassifyFiagroFirst(searchData) ==
    IF IsArray(searchData) /\ Len(searchData.a) > 0
      THEN LET urlStr == UrlStrOf(searchData).s
           IN  IF includes(urlStr, FiagroMarker) THEN "fiagro"
               ELSE IF includes(urlStr, FiiMarker) THEN "fii"
               ELSE "acoes"
    ELSE "acoes"

Classify(searchData) ==
    IF IsArray(searchData) /\ Len(searchData.a) > 0
      THEN LET urlStr == UrlStrOf(searchData).s
           IN  IF includes(urlStr, FiiMarker) THEN "fii"
               ELSE IF includes(urlStr, FiagroMarker) THEN "fiagro"
               ELSE "acoes"
    ELSE "acoes"

\* ---- the six endpoints --------------------------------------------------
NumEndpoints == 6
Endpoints == 1..NumEndpoints
ProventosSlot == 6

\* the test applied to each result r; App1:190, App2:573
IsEmptyResult(copy, r) ==
    IF copy = App1
      THEN r = JNull \/ (r.t \in {"obj", "arr"} /\ ~IsArray(r) /\ KeyCount(r) = 0)
    ELSE r = JNull \/ KeyCount(r) = 0

\* results.some(...) in place of results.every(...)
someNull(copy, results) == \E k \in Endpoints : IsEmptyResult(copy, results[k])

\* results.every(...)
allNull(copy, results) == \A k \in Endpoints : IsEmptyResult(copy, results[k])

\* the object handed to setData; any throwing normalizer aborts the block
SeriesOf(copy, results) ==
    [k \in Endpoints |->
        IF k = ProventosSlot THEN normalizeProventos(copy, results[k])
        ELSE normalizeGenericChartData(copy, results[k])]

NormalizeThrows(copy, results) == \E k \in Endpoints : SeriesOf(copy, results)[k].threw

\* categoria label of the real snapshot; App1:201, App2:586
CategoriaLabel(copy, categoria) ==
    IF copy = App1
      THEN (IF categoria = "fii" THEN "FII" ELSE IF categoria = "fiagro" THEN "FIAGRO" ELSE "AÇÃO")
    ELSE (IF categoria = "fii" THEN "FII" ELSE IF categoria = "fiagro" THEN "FIAGRO" ELSE "ACOES")

NoData == [t |-> "null"]

\* a series that came out empty is filled from the generator
RealSnapshotPatched(copy, categoria, results) ==
    [t         |-> "snapshot",
     isMock    |-> FALSE,
     categoria |-> CategoriaLabel(copy, categoria),
     series    |-> [k \in Endpoints |->
                     IF SeriesOf(copy, results)[k].pts = <<>>
                       THEN <<[name |-> JStr(<<"2019">>), value |-> JNum(1000)]>>
                     ELSE SeriesOf(copy, results)[k].pts]]

RealSnapshot(copy, categoria, results) ==
    [t         |-> "snapshot",
     isMock    |-> FALSE,
     categoria |-> CategoriaLabel(copy, categoria),
     series    |-> [k \in Endpoints |-> SeriesOf(copy, results)[k].pts]]

\* ---- generateMockData ---------------------------------------------------
years  == <<"2019", "2020", "2021", "2022", "2023", "2024">>
months == <<"Jan", "Fev", "Mar", "Abr", "Mai", "Jun", "Jul", "Ago", "Set", "Out", "Nov", "Dez">>

\* ticker.length === 6 && ticker.endsWith('11')
isFii(ticker) == Len(ticker) = 6 /\ ticker[5] = "1" /\ ticker[6] = "1"

\* Math.random() in hundredths; one draw stands for all the calls of one
\* generateMockData
RandomDraws == {0, 80}

\* monetary values in millions: base + i * step + Math.random() * jitter
Yearly(base, step, jitter, r) ==
    [i \in 1..Len(years) |->
        [name |-> JStr(<<years[i]>>), value |-> JNum(base + (i - 1) * step + (r * jitter) \div 100)]]

\* earnings values in hundredths
MonthlyValue(ticker, r) ==
    IF isFii(ticker) THEN 80 + (r * 40) \div 100
    ELSE IF r > 70 THEN 150 + (r * 200) \div 100 ELSE 0

Monthly(copy, ticker, r) ==
    [i \in 1..Len(months) |->
        [name  |-> JStr(<<months[i]>>),
         value |-> JNum(MonthlyValue(ticker, r)),
         type  |-> IF copy = App2 THEN JUndef
                   ELSE IF isFii(ticker) THEN JStr(<<"Rendimento">>) ELSE JStr(<<"Dividendo">>)]]

generateMockData(copy, ticker, r) ==
    [t         |-> "snapshot",
     isMock    |-> TRUE,
     categoria |-> IF copy = App2 THEN "undefined" ELSE IF isFii(ticker) THEN "FII" ELSE "AÇÃO",
     series    |-> <<Yearly(1000, 150, 50, r), Yearly(200, 20, 10, r), Yearly(150, 10, 5, r),
                     Yearly(50, 0, 20, r), Yearly(50, 10, 5, r), Monthly(copy, ticker, r)>>]

(***************************************************************************)
(* fetchFinancialData.  Two invocations can be in flight together: the     *)
(* function has no guard of its own, and the button's disabled attribute   *)
(* follows `loading` only at the next render.                              *)
(***************************************************************************)
QueryIds == {1, 2}
MaxStarts == 2

\* what a call through proxyFetch (App1) or fetch (App2) comes back with
Rejected  == [kind |-> "reject", v |-> JUndef]      \* fetch() rejects
NotOk     == [kind |-> "notOk",  v |-> JUndef]      \* res.ok is false
BadJson   == [kind |-> "badJson", v |-> JUndef]     \* res.json() rejects
Json(v)   == [kind |-> "json",   v |-> v]

\* proxyFetch (App1:13-22); the search call of App2:527-531
proxyFetchThrows(outcome) == outcome.kind # "json"

\* the promise returned by safeFetch (App1:175-178) / fetchEndpoint (App2:553-561)
\* st: the promise's state, v: its value; cause and resp record the call
\* it wraps
Unissued == [st |-> "unissued", cause |-> "none", resp |-> JUndef, v |-> JUndef]
Pending  == [st |-> "pending", cause |-> "none", resp |-> JUndef, v |-> JUndef]

\* the call without its try/catch: a failing call rejects the promise
safeFetchNoCatch(outcome) ==
    [st    |-> IF proxyFetchThrows(outcome) THEN "rejected" ELSE "fulfilled",
     cause |-> outcome.kind,
     resp  |-> outcome.v,
     v     |-> outcome.v]

safeFetch(outcome) ==
    [st    |-> "fulfilled",
     cause |-> outcome.kind,
     resp  |-> outcome.v,
     v     |-> IF proxyFetchThrows(outcome) THEN JNull ELSE outcome.v]

InFlight(q) == qpc[q] \in {"search", "fanout"}

\* the record an idle invocation reuses: the lowest one not in flight
FreeId(q) == ~InFlight(q) /\ \A p \in QueryIds : p < q => InFlight(p)

NoSearch == [kind |-> "none", v |-> JUndef]

NoError == [t |-> "empty", ticker |-> <<>>, cause |-> "none"]

\* the catch block without its setError
NoticeForgotten(copy, ticker, cause) == NoError

\* the notice of the catch block; App1:207-210 names ticker and err.message,
\* App2:593 is a fixed text
Notice(copy, ticker, cause) ==
    IF copy = App1 THEN [t |-> "simulated", ticker |-> ticker, cause |-> cause]
    ELSE [t |-> "simulated", ticker |-> <<>>, cause |-> "fixed"]

\* fetchFinancialData(raw) up to its first await
fetchFinancialData(raw) ==
    LET ticker == TickerOf(appCopy, raw)
    IN  IF ticker = <<>>
          THEN UNCHANGED <<currentTicker, loading, error, data, started, qpc, qseq,
                           qticker, qsearch, qcat, qslot, dataWriter>>
        ELSE \E q \in QueryIds :
               /\ FreeId(q)
               /\ started < MaxStarts
               /\ loading' = TRUE
               /\ error' = NoError
               /\ data' = NoData
               /\ currentTicker' = toUpperCase(ticker)
               /\ started' = started + 1
               /\ qpc' = [qpc EXCEPT ![q] = "search"]
               /\ qseq' = [qseq EXCEPT ![q] = started + 1]
               /\ qticker' = [qticker EXCEPT ![q] = ticker]
               /\ qsearch' = [qsearch EXCEPT ![q] = NoSearch]
               /\ qcat' = [qcat EXCEPT ![q] = "acoes"]
               /\ qslot' = [qslot EXCEPT ![q] = [k \in Endpoints |-> Unissued]]
               /\ UNCHANGED dataWriter

\* useEffect(() => { fetchFinancialData('MXRF11'); }, [])
MXRF11 == <<"M", "X", "R", "F", "1", "1">>

Mount ==
    /\ ~mounted
    /\ mounted' = TRUE
    /\ fetchFinancialData(MXRF11)
    /\ UNCHANGED <<appCopy, domDisabled, relayVars, callVars>>

\* handleSubmit: the form is submitted with the text of the input field;
\* App1:240 keeps the field in upper case.  alone: the user waits for the
\* query in flight, if any, before submitting
handleSubmit(raw, alone) ==
    /\ mounted
    /\ ~domDisabled
    /\ alone => \A q \in QueryIds : ~InFlight(q)
    /\ fetchFinancialData(IF appCopy = App1 THEN toUpperCase(raw) ELSE raw)
    /\ UNCHANGED <<appCopy, domDisabled, mounted, relayVars, callVars>>

\* React commits a render: disabled={loading}
Render ==
    /\ mounted
    /\ domDisabled # loading
    /\ domDisabled' = loading
    /\ UNCHANGED <<appCopy, currentTicker, loading, error, data, mounted, started,
                   qpc, qseq, qticker, qsearch, qcat, qslot, dataWriter, relayVars, callVars>>

\* the catch block without the finally block
FallbackNoFinally(q, cause, r) ==
    /\ data' = generateMockData(appCopy, qticker[q], r)
    /\ error' = Notice(appCopy, qticker[q], cause)
    /\ loading' = loading
    /\ dataWriter' = q
    /\ qpc' = [qpc EXCEPT ![q] = "done"]

\* the catch and finally blocks; App1:204-213, App2:589-596
Fallback(q, cause, r) ==
    /\ data' = generateMockData(appCopy, qticker[q], r)
    /\ error' = Notice(appCopy, qticker[q], cause)
    /\ loading' = FALSE
    /\ dataWriter' = q
    /\ qpc' = [qpc EXCEPT ![q] = "done"]

\* the search call of invocation q settles
SearchSettles(q, outcome, r) ==
    /\ qpc[q] = "search"
    /\ qsearch' = [qsearch EXCEPT ![q] = outcome]
    /\ UNCHANGED <<appCopy, currentTicker, domDisabled, mounted, started, qseq, qticker, relayVars, callVars>>
    /\ IF proxyFetchThrows(outcome)
         THEN Fallback(q, "searchFailed", r) /\ UNCHANGED <<qcat, qslot>>
       ELSE IF ClassifyThrows(outcome.v)
         THEN Fallback(q, "typeError", r) /\ UNCHANGED <<qcat, qslot>>
       ELSE /\ qcat' = [qcat EXCEPT ![q] = Classify(outcome.v)]
            /\ qslot' = [qslot EXCEPT ![q] = [k \in Endpoints |-> Pending]]
            /\ qpc' = [qpc EXCEPT ![q] = "fanout"]
            /\ UNCHANGED <<loading, error, data, dataWriter>>

\* the call of endpoint k of invocation q settles
EndpointSettles(q, k, outcome) ==
    /\ qpc[q] = "fanout"
    /\ qslot[q][k].st = "pending"
    /\ qslot' = [qslot EXCEPT ![q][k] = safeFetch(outcome)]
    /\ UNCHANGED <<appCopy, currentTicker, loading, error, data, domDisabled, mounted,
                   started, qpc, qseq, qticker, qsearch, qcat, dataWriter, relayVars, callVars>>

Results(q) == [k \in Endpoints |-> qslot[q][k].v]

\* Promise.all settles: it rejects as soon as one promise has rejected and
\* resolves once all six are fulfilled
PromiseAllRejected(q) == \E k \in Endpoints : qslot[q][k].st = "rejected"
\* the batch resolves with the first promise that is fulfilled
PromiseAnyResolved(q) == \E k \in Endpoints : qslot[q][k].st = "fulfilled"

PromiseAllResolved(q) == \A k \in Endpoints : qslot[q][k].st = "fulfilled"

\* the rest of the try block after Promise.all; App1:189-213, App2:572-596
Decide(q, r) ==
    /\ qpc[q] = "fanout"
    /\ PromiseAllRejected(q) \/ PromiseAllResolved(q)
    /\ UNCHANGED <<appCopy, currentTicker, domDisabled, mounted, started, qseq, qticker,
                   qsearch, qcat, qslot, relayVars, callVars>>
    /\ IF PromiseAllRejected(q) THEN Fallback(q, "searchFailed", r)
       ELSE IF allNull(appCopy, Results(q)) THEN Fallback(q, "allEmpty", r)
       ELSE IF NormalizeThrows(appCopy, Results(q)) THEN Fallback(q, "typeError", r)
       ELSE /\ data' = RealSnapshot(appCopy, qcat[q], Results(q))
            /\ loading' = FALSE
            /\ dataWriter' = q
            /\ qpc' = [qpc EXCEPT ![q] = "done"]
            /\ UNCHANGED error

(***************************************************************************)
(* Initial states and specifications                                       *)
(***************************************************************************)
\* the App component before its mount effect has run; App1:137-141
AppUnmounted ==
    /\ currentTicker = <<>>
    /\ loading = FALSE
    /\ error = NoError
    /\ data = NoData
    /\ domDisabled = FALSE
    /\ mounted = FALSE
    /\ started = 0
    /\ qpc = [q \in QueryIds |-> "idle"]
    /\ qseq = [q \in QueryIds |-> 0]
    /\ qticker = [q \in QueryIds |-> <<>>]
    /\ qsearch = [q \in QueryIds |-> NoSearch]
    /\ qcat = [q \in QueryIds |-> "acoes"]
    /\ qslot = [q \in QueryIds |-> [k \in Endpoints |-> Unissued]]
    /\ dataWriter = 0

\* no normalizer is called outside a query
NoRet == [threw |-> FALSE, pts |-> <<>>]

NoCall ==
    /\ callFn = "none"
    /\ callArg = JUndef
    /\ callRet = NoRet

\* ---- the relay alone: one invocation of either copy of the handler ------
InitRelay ==
    /\ relayFile \in RelayFiles
    /\ RelayIdle
    /\ appCopy = App1
    /\ AppUnmounted
    /\ NoCall

NextRelay ==
    \/ \E m \in Methods, u \in UrlParams : HandlerInvoke(m, u)
    \/ FetchRejects
    \/ \E h \in UpHeads : FetchResolves(h)
    \/ BodyRejects
    \/ \E b \in Bodies : BodyResolves(b)

SpecRelay == InitRelay /\ [][NextRelay]_vars

\* ---- the client: either copy of App, the relay seen through its answers --
InitApp ==
    /\ appCopy \in AppCopies
    /\ AppUnmounted
    /\ relayFile = ProxyJs
    /\ RelayIdle
    /\ NoCall

\* payloads of the data endpoints
Year2020 == JStr(<<"2", "0", "2", "0">>)
SeriesPayload == JArr(<<JObj([date |-> Year2020, value |-> JNum(10)])>>)
EarningsPayload ==
    JObj([assetEarningsModels |-> JArr(<<
        JObj([ed |-> JStr(<<"0", "1", "/", "0", "3", "/", "2", "0", "2", "3">>), v |-> JNum(2), et |-> JStr(<<"Dividendo">>)]),
        JObj([ed |-> JStr(<<"1", "5", "/", "0", "1", "/", "2", "0", "2", "3">>), v |-> JNum(1), et |-> JStr(<<"JCP">>)])>>)])
GoodPayload(k) == IF k = ProventosSlot THEN EarningsPayload ELSE SeriesPayload

\* search results: no array, no result, a first result that is null, has
\* no url, has a url that is no string, and urls with and without markers
SearchPayloads ==
    {EmptyObj, EmptyArr, JArr(<<JNull>>), JArr(<<EmptyObj>>), JArr(<<JObj([url |-> JNum(5)])>>)}
      \cup {JArr(<<JObj([url |-> JStr(u)])>>) :
              u \in {<<"/", AcoesMarker, "/x">>, <<"/", FiiMarker, "/x">>, <<"/", FiagroMarker, "/x">>,
                     <<"/", AcoesMarker, "/", FiiMarker>>, <<"/", AcoesMarker, "/", FiagroMarker>>,
                     <<"/", FiagroMarker, "/", FiiMarker>>, <<"/etfs/x">>}}

SearchOutcomes == {Rejected, NotOk, BadJson} \cup {Json(v) : v \in SearchPayloads}

\* tickers typed into the input field
TickerInputs == {<<"p", "e", "t", "r", "4">>, <<" ">>, <<>>}

\* one query at a time, every kind of search result, endpoint calls that
\* fail in each way or succeed
QueryEndpointOutcomes(k) == {Rejected, NotOk, Json(GoodPayload(k))}

NextQuery ==
    \/ Mount
    \/ \E raw \in TickerInputs : handleSubmit(raw, TRUE)
    \/ Render
    \/ \E q \in QueryIds, o \in SearchOutcomes, r \in RandomDraws : SearchSettles(q, o, r)
    \/ \E q \in QueryIds, k \in Endpoints : \E o \in QueryEndpointOutcomes(k) : EndpointSettles(q, k, o)
    \/ \E q \in QueryIds, r \in RandomDraws : Decide(q, r)

SpecQuery == InitApp /\ [][NextQuery]_vars

\* the query of the page load, a search that fails or finds nothing, and
\* endpoint calls that fail or answer with an empty object, an empty array,
\* a scalar, a payload with a null inside, or a payload of the expected shape
BrokenPayload(k) ==
    IF k = ProventosSlot THEN JObj([assetEarningsModels |-> JArr(<<JNull>>)]) ELSE JArr(<<JNull>>)

AggregateEndpointOutcomes(k) ==
    {Rejected, Json(EmptyObj), Json(EmptyArr), Json(JNum(5)), Json(BrokenPayload(k)), Json(GoodPayload(k))}

NextAggregate ==
    \/ Mount
    \/ \E q \in QueryIds, o \in {Rejected, Json(EmptyArr)}, r \in RandomDraws : SearchSettles(q, o, r)
    \/ \E q \in QueryIds, k \in Endpoints : \E o \in AggregateEndpointOutcomes(k) : EndpointSettles(q, k, o)
    \/ \E q \in QueryIds, r \in RandomDraws : Decide(q, r)

SpecAggregate == InitApp /\ [][NextAggregate]_vars

\* overlapping queries: the user may submit whenever the rendered button
\* allows it; the search fails or finds nothing, every endpoint call may
\* fail, and the first and the earnings endpoint may also succeed
OverlapEndpointOutcomes(k) ==
    IF k \in {1, ProventosSlot} THEN {Rejected, Json(GoodPayload(k))} ELSE {Rejected}

NextOverlap ==
    \/ Mount
    \/ \E raw \in {<<"P", "E", "T", "R", "4">>} : handleSubmit(raw, FALSE)
    \/ Render
    \/ \E q \in QueryIds, o \in {Rejected, Json(EmptyArr)}, r \in RandomDraws : SearchSettles(q, o, r)
    \/ \E q \in QueryIds, k \in Endpoints : \E o \in OverlapEndpointOutcomes(k) : EndpointSettles(q, k, o)
    \/ \E q \in QueryIds, r \in RandomDraws : Decide(q, r)

SpecOverlap == InitApp /\ [][NextOverlap]_vars

\* ---- total failure: tickers of every form, a search that answers, and six
\* endpoint calls that all fail
NextFallback ==
    \/ Mount
    \/ \E raw \in {<<"P", "E", "T", "R", "4">>, <<"K", "N", "R", "I", "1", "1">>,
                    <<"A", "B", "C", "D", "3", "4">>, <<"A", "B", "C", "1", "1">>,
                    <<"m", "x", "r", "f", "1", "1">>} : handleSubmit(raw, TRUE)
    \/ Render
    \/ \E q \in QueryIds, r \in RandomDraws :
          \E o \in {Json(EmptyArr), Json(JArr(<<JObj([url |-> JStr(<<"/", FiiMarker, "/x">>)])>>))} :
              SearchSettles(q, o, r)
    \/ \E q \in QueryIds, k \in Endpoints, o \in {Rejected, NotOk} : EndpointSettles(q, k, o)
    \/ \E q \in QueryIds, r \in RandomDraws : Decide(q, r)

SpecFallback == InitApp /\ [][NextFallback]_vars

\* ---- the normalizers alone: one call of either function, either copy ----
MaxItems == 2
MaxRecords == 3

\* arguments of normalizeGenericChartData: scalars; arrays of null, objects
\* and numbers, with the date under date, d or year and the value under
\* value or v, a number, a numeric or non-numeric string, an object, null
\* or missing; categories with a series whose first entry is null, lacks
\* data, or holds data that is null, a string or an array
SeriesInputs ==
    LET FieldValues == {JNum(10), JNum(0), JStr(<<"1", "2">>), JStr(<<"abc">>), EmptyObj, JNull}
        SeriesItems ==
            {JNull, EmptyObj, JNum(7), JObj([date |-> Year2020]), JObj([year |-> Year2020, value |-> JNum(3)])}
              \cup {JObj([date |-> Year2020, value |-> v]) : v \in FieldValues}
              \cup {JObj([d |-> JStr(<<"2", "0", "2", "1">>), v |-> v]) : v \in {JNum(4), JStr(<<"abc">>)}}
        SeriesEntries ==
            {JNull, EmptyObj, JObj([data |-> JNull]), JObj([data |-> JStr(<<"4", "2">>)])}
              \cup {JObj([data |-> JArr(a)]) : a \in SeqsUpTo(FieldValues, MaxItems)}
    IN  {JNull, JUndef, JNum(0), JNum(5), JBool(TRUE), JStr(<<>>), JStr(<<"abc">>), EmptyObj, EmptyArr}
          \cup {JArr(a) : a \in SeqsUpTo(SeriesItems, MaxItems)}
          \cup {JObj([categories |-> c, series |-> JArr(<<e>>)]) :
                    c \in {JArr(a) : a \in SeqsUpTo({Year2020, JNum(2021)}, MaxItems)} \cup {JStr(<<"abc">>)},
                    e \in SeriesEntries}
          \cup {JObj([categories |-> JArr(<<Year2020>>), series |-> x]) :
                    x \in {EmptyArr, JNull, JStr(<<"abc">>), JObj([length |-> JNum(1)])}}

\* dates of earnings records, DD/MM/YYYY: 01/03/2023, 15/01/2023,
\* 20/12/2022, 03/02/2023, 02/03/2023
InputDates ==
    <<JStr(<<"0", "1", "/", "0", "3", "/", "2", "0", "2", "3">>),
      JStr(<<"1", "5", "/", "0", "1", "/", "2", "0", "2", "3">>),
      JStr(<<"2", "0", "/", "1", "2", "/", "2", "0", "2", "2">>),
      JStr(<<"0", "3", "/", "0", "2", "/", "2", "0", "2", "3">>),
      JStr(<<"0", "2", "/", "0", "3", "/", "2", "0", "2", "3">>)>>

\* arguments of normalizeProventos: lists of records with a valid date, two
\* of them on the same day, without a date, with a text that is no date,
\* and with three parts that are no numbers
EarningsInputs ==
    LET DatedRecords ==
            {JObj([ed |-> InputDates[i], v |-> JNum(1), et |-> JStr(<<"Dividendo">>)]) : i \in DOMAIN InputDates}
              \cup {JObj([pd |-> InputDates[2], v |-> JNum(2), et |-> JStr(<<"JCP">>)])}
        UndatedRecords ==
            {JObj([v |-> JNum(3), et |-> JStr(<<"JCP">>)]),
             JObj([ed |-> JStr(<<"abc">>), v |-> JStr(<<"abc">>)]),
             JObj([ed |-> JStr(<<"a", "a", "/", "b", "b", "/", "c", "c", "c", "c">>), v |-> JNum(5)])}
    IN  {JNull, EmptyObj, JObj([assetEarningsModels |-> JNull])}
          \cup {JObj([assetEarningsModels |-> JArr(a)]) :
                    a \in SeqsUpTo(DatedRecords \cup UndatedRecords, MaxRecords)}

InitNormalize ==
    /\ appCopy \in AppCopies
    /\ AppUnmounted
    /\ relayFile = ProxyJs
    /\ RelayIdle
    /\ callFn = "none"
    /\ callArg \in SeriesInputs \cup EarningsInputs
    /\ callRet = NoRet

CallGeneric ==
    /\ callFn = "none"
    /\ callArg \in SeriesInputs
    /\ callFn' = "normalizeGenericChartData"
    /\ callRet' = normalizeGenericChartData(appCopy, callArg)
    /\ UNCHANGED <<callArg, relayVars, appVars>>

CallProventos ==
    /\ callFn = "none"
    /\ callArg \in EarningsInputs
    /\ callFn' = "normalizeProventos"
    /\ callRet' = normalizeProventos(appCopy, callArg)
    /\ UNCHANGED <<callArg, relayVars, appVars>>

NextNormalize ==
    \/ CallGeneric
    \/ CallProventos

SpecNormalize == InitNormalize /\ [][NextNormalize]_vars

\* ---- queries whose calls all settle: every call of a query in flight
\* settles in the end, with a failure or (the search and the first
\* endpoint) with an answer, and the continuation after an await runs once
\* its promise has settled; the user need not do anything
LiveSettles(q) ==
    \/ \E o \in {Rejected, Json(EmptyArr)} : SearchSettles(q, o, 0)
    \/ \E k \in Endpoints : \E o \in (IF k = 1 THEN {Rejected, Json(GoodPayload(k))} ELSE {Rejected}) :
          EndpointSettles(q, k, o)
    \/ Decide(q, 0)

NextLive ==
    \/ Mount
    \/ \E raw \in {<<"P", "E", "T", "R", "4">>} : handleSubmit(raw, FALSE)
    \/ \E q \in QueryIds : LiveSettles(q)

SpecLive == InitApp /\ [][NextLive]_vars /\ \A q \in QueryIds : WF_vars(LiveSettles(q))

(***************************************************************************)
(* Claims about the relay                                                  *)
(***************************************************************************)

\* C1: a GET request whose url parameter is missing, does not parse as an
\* absolute URL, or parses to a hostname that does not end with
\* statusinvest.com.br is answered 400, 400 and 403 respectively, and the
\* invocation issues no outbound fetch.
C1_RejectedBeforeFetch ==
    (hpc # "idle" /\ reqMethod = "GET") =>
        /\ (reqUrl = <<>> => resStatus = 400 /\ outbound = <<>>)
        /\ (reqUrl # <<>> /\ ~UrlParses(reqUrl) => resStatus = 400 /\ outbound = <<>>)
        /\ (UrlParses(reqUrl) /\ ~HostnameAllowed(reqUrl) => resStatus = 403 /\ outbound = <<>>)

\* the upstream response was received in full and shows one of the three
\* challenge signs
ChallengeSeen ==
    /\ hpc = "done"
    /\ upFail = "none"
    /\ upHead # NoHead
    /\ \/ ~ResponseOk(upHead)
       \/ IncludesTextHtml(upHead.contentType)
       \/ upBody # NoBody /\ startsWith(trimStart(upBody), Doctype)
       \/ upBody # NoBody /\ startsWith(trimStart(upBody), HtmlTag)

\* C2: an upstream response with a non-success status, a text/html content
\* type or a body starting (after whitespace) with "<!" or "<html" is
\* answered 503 (BlockedChallenge), never 200.
C2_ChallengeIs503 == ChallengeSeen => resStatus = 503 /\ resKind = "blocked"

\* the body was read, is no challenge, and is not JSON
MalformedSeen ==
    /\ hpc = "done"
    /\ upFail = "none"
    /\ upBody # NoBody
    /\ ~IsChallenge(upHead, upBody)
    /\ ~JsonParses(upBody)

\* C3: 200 with the parsed JSON only after a completed fetch of a response
\* that is no challenge and parses; a body that does not parse is answered
\* 502, a transport failure 500, and neither status is used for the other.
C3_SuccessMalformedNetwork ==
    /\ resKind = "success" =>
          /\ resStatus = 200
          /\ upFail = "none"
          /\ upBody # NoBody
          /\ ~IsChallenge(upHead, upBody)
          /\ JsonParses(upBody)
          /\ resData = JsonParse(upBody)
    /\ MalformedSeen => resStatus = 502
    /\ (hpc = "done" /\ upFail # "none") => resStatus = 500
    /\ resStatus = 500 => upFail # "none"
    /\ resStatus = 502 => MalformedSeen

\* C4: the URL handed to fetch() is exactly the url parameter as received;
\* the handler does not percent-decode it again.
C4_NoSecondDecode == outbound # <<>> => outbound = <<reqUrl>>

(***************************************************************************)
(* Claims about the client                                                 *)
(***************************************************************************)
Categories == {"acoes", "fii", "fiagro"}

SearchSettled(q) == qsearch[q].kind # "none"
SearchCallFailed(q) == qsearch[q].kind \in {"reject", "notOk", "badJson"}

\* the search answered with a non-empty array
HasFirstResult(q) ==
    qsearch[q].kind = "json" /\ qsearch[q].v.t = "arr" /\ qsearch[q].v.a # <<>>

\* the url of the first result, '' when it has none
FirstUrl(q) ==
    LET first == qsearch[q].v.a[1]
    IN  IF first.t = "obj" /\ "url" \in DOMAIN first.o /\ Truthy(first.o["url"])
          THEN first.o["url"] ELSE JStr(<<>>)

\* the first result is null, or its url is not a string
SearchUnreadable(q) ==
    HasFirstResult(q) /\ (qsearch[q].v.a[1].t = "null" \/ FirstUrl(q).t # "str")

\* no result set, an empty one, or a first result without any marker
NoMarker(q) ==
    \/ ~HasFirstResult(q)
    \/ ~SearchUnreadable(q) /\ \A i \in 1..Len(FirstUrl(q).s) :
            FirstUrl(q).s[i] \notin {FiiMarker, FiagroMarker, AcoesMarker}

HasMarker(q, m) == \E i \in 1..Len(FirstUrl(q).s) : FirstUrl(q).s[i] = m

ExpectedCategory(q) ==
    IF ~HasFirstResult(q) THEN "acoes"
    ELSE IF HasMarker(q, FiiMarker) THEN "fii"
    ELSE IF HasMarker(q, FiagroMarker) THEN "fiagro"
    ELSE "acoes"

EndpointsIssued(q) == \A k \in Endpoints : qslot[q][k].st # "unissued"
Displayed(q) == data.t = "snapshot" /\ dataWriter = q

C6_EndpointIsolation ==
    \A q \in QueryIds :
        /\ \A k \in Endpoints :
              /\ qslot[q][k].st \in {"unissued", "pending", "fulfilled"}
              /\ qslot[q][k].st = "fulfilled" =>
                    IF qslot[q][k].cause = "json" THEN qslot[q][k].v = qslot[q][k].resp
                    ELSE qslot[q][k].v = JNull
        /\ (qpc[q] = "done" /\ EndpointsIssued(q)) =>
              \A k \in Endpoints : qslot[q][k].st = "fulfilled"

C6_Witness ==
    \E q \in QueryIds :
        /\ qpc[q] = "done"
        /\ qslot[q][1].cause = "reject" /\ qslot[q][1].v = JNull
        /\ qslot[q][2].cause = "notOk" /\ qslot[q][2].v = JNull
        /\ qslot[q][3].cause = "json" /\ qslot[q][3].v = SeriesPayload
        /\ Displayed(q) /\ ~data.isMock

\* null, an empty object or an empty array
EmptySlot(v) == v = JNull \/ v = EmptyObj \/ v = EmptyArr

Decided(q) == qpc[q] = "done" /\ EndpointsIssued(q) /\ Displayed(q)

\* C7: six results that are each null, an empty object or an empty array
\* make the query fall back to the synthetic snapshot.
C7_AllEmptyFallsBack ==
    \A q \in QueryIds :
        (Decided(q) /\ \A k \in Endpoints : EmptySlot(qslot[q][k].v)) => data.isMock

\* C8: with at least one result that is not null, not an empty object and
\* not an empty array, the query shows the snapshot normalized from the six
\* results, with isMock = false.
C8_NonEmptyIsReal ==
    \A q \in QueryIds :
        (Decided(q) /\ \E k \in Endpoints : ~EmptySlot(qslot[q][k].v)) =>
            /\ ~data.isMock
            /\ data = RealSnapshot(appCopy, qcat[q], Results(q))

Keyless(v) == EmptySlot(v) \/ v.t \in {"num", "bool"}

C10_LastQueryWins ==
    data.t = "snapshot" => qseq[dataWriter] = started

(***************************************************************************)
(* Claims about the displayed state                                        *)
(***************************************************************************)

\* C11: a snapshot on display with isMock = true carries the six series of
\* one call of generateMockData, and one with isMock = false carries the six
\* series normalized from the six results of the one query that wrote it;
\* no snapshot mixes real and synthetic series or series of two queries.
C11_SnapshotOfOneSource ==
    data.t = "snapshot" =>
        /\ dataWriter \in QueryIds
        /\ IF data.isMock
             THEN \E r \in RandomDraws :
                     data.series = generateMockData(appCopy, qticker[dataWriter], r).series
           ELSE /\ PromiseAllResolved(dataWriter)
                /\ \A k \in Endpoints :
                      data.series[k] =
                          IF k = ProventosSlot
                            THEN normalizeProventos(appCopy, qslot[dataWriter][k].v).pts
                          ELSE normalizeGenericChartData(appCopy, qslot[dataWriter][k].v).pts

\* a real snapshot on display while the other query holds results of its own
C11_Witness ==
    /\ data.t = "snapshot" /\ ~data.isMock
    /\ \E q \in QueryIds :
          /\ q # dataWriter
          /\ qpc[q] = "fanout"
          /\ qslot[q][1].st = "fulfilled"
          /\ qslot[q][1].v # qslot[dataWriter][1].v

\* C12: whenever the snapshot on display is synthetic, the notice is not
\* empty and says that the data is simulated.
C12_SyntheticHasNotice ==
    (data.t = "snapshot" /\ data.isMock) => (error # NoError /\ error.t = "simulated")

\* a synthetic snapshot written by the older query, on display with its
\* notice while the newer query is still in flight
C12_Witness ==
    /\ data.t = "snapshot" /\ data.isMock /\ error.t = "simulated"
    /\ \E q \in QueryIds : InFlight(q) /\ qseq[q] > qseq[dataWriter]

\* C13: a ticker that is empty after trimming starts no query: no
\* invocation ever fetches for such a ticker and currentTicker never holds
\* one (loading, error and data change only where a query starts or ends).
C13_BlankTickerStartsNothing ==
    /\ \A q \in QueryIds : qpc[q] # "idle" => trim(qticker[q]) # <<>>
    /\ currentTicker # <<>> => trim(currentTicker) # <<>>

(***************************************************************************)
(* Claims about the normalizers                                            *)
(***************************************************************************)
CalledGeneric   == callFn = "normalizeGenericChartData"
CalledProventos == callFn = "normalizeProventos"

\* v.k of an object, undefined otherwise
Field(v, k) == IF v.t = "obj" /\ k \in DOMAIN v.o THEN v.o[k] ELSE JUndef

\* first recognized shape: a non-empty array whose first element carries a
\* date under `date` or `d`
DatedShape(v) ==
    /\ v.t = "arr" /\ v.a # <<>>
    /\ Truthy(Field(v.a[1], "date")) \/ Truthy(Field(v.a[1], "d"))

\* second recognized shape: categories, and a non-empty series whose first
\* entry holds a data array
ZipShape(v) ==
    /\ v.t = "obj"
    /\ Field(v, "categories").t = "arr"
    /\ Field(v, "series").t = "arr" /\ Field(v, "series").a # <<>>
    /\ Field(Field(v, "series").a[1], "data").t = "arr"

\* C14: normalizeGenericChartData never throws, and an input of neither
\* recognized shape yields the empty sequence.
C14_NormalizeSeriesTotal ==
    CalledGeneric =>
        /\ ~callRet.threw
        /\ (~DatedShape(callArg) /\ ~ZipShape(callArg)) => callRet.pts = <<>>

ZipCategories(v) == Field(v, "categories").a
ZipData(v)       == Field(Field(v, "series").a[1], "data").a

Shorter(m, n) == IF m < n THEN m ELSE n

\* Number(x), null and absent entries counting as 0
Coerced(x) == IF Nullish(x) THEN JNum(0) ELSE ToNumber(x)

ZipLabelsAndValues(n) ==
    \A i \in 1..n :
        /\ callRet.pts[i].name = JStr(ToStr(ZipCategories(callArg)[i]))
        /\ callRet.pts[i].value =
               Coerced(IF i <= Len(ZipData(callArg)) THEN ZipData(callArg)[i] ELSE JUndef)

\* C15 as stated: on a categories/series payload the result is as long as
\* the shorter of categories and series[0].data, point i carrying
\* categories[i] and the coerced series[0].data[i].
C15_ZipToShorter ==
    (CalledGeneric /\ ZipShape(callArg)) =>
        /\ ~callRet.threw
        /\ Len(callRet.pts) = Shorter(Len(ZipCategories(callArg)), Len(ZipData(callArg)))
        /\ ZipLabelsAndValues(Len(callRet.pts))

\* C15 amended: the result is as long as categories, whatever the length
\* of series[0].data; point i carries String(categories[i]) and
\* Number(series[0].data[i]), an index absent from data or holding null
\* giving 0.
C15_ZipToCategories ==
    (CalledGeneric /\ ZipShape(callArg)) =>
        /\ ~callRet.threw
        /\ Len(callRet.pts) = Len(ZipCategories(callArg))
        /\ ZipLabelsAndValues(Len(callRet.pts))

\* more categories than data entries: the last point is padded with 0
C15_Witness ==
    /\ CalledGeneric /\ ZipShape(callArg)
    /\ Len(ZipCategories(callArg)) = 2 /\ Len(ZipData(callArg)) = 1
    /\ Len(callRet.pts) = 2
    /\ callRet.pts[2].value = JNum(0)

\* C16: every point returned by either normalizer holds a number as its
\* value; a missing or non-numeric value field gives 0.
C16_ValuesAreNumbers ==
    (callFn # "none" /\ ~callRet.threw) =>
        \A i \in 1..Len(callRet.pts) : callRet.pts[i].value.t = "num"

\* the argument is an earnings payload whose records are all objects
RecordsOf(v) == Field(v, "assetEarningsModels").a

EarningsShape(v) ==
    /\ Field(v, "assetEarningsModels").t = "arr"
    /\ \A i \in 1..Len(RecordsOf(v)) : RecordsOf(v)[i].t = "obj"

\* the date text of a record: its earnings date, else its payment date
DateText(rec) == IF Truthy(Field(rec, "ed")) THEN Field(rec, "ed") ELSE Field(rec, "pd")

\* a text of the form DD/MM/YYYY, all digits, with a month and a day in range
IsDayMonthYear(name) ==
    /\ name.t = "str" /\ Len(name.s) = 10
    /\ name.s[3] = "/" /\ name.s[6] = "/"
    /\ \A i \in {1, 2, 4, 5, 7, 8, 9, 10} : DigitValue(name.s[i]) >= 0
    /\ DigitsToNat(SubSeq(name.s, 4, 5)) \in 1..12
    /\ DigitsToNat(SubSeq(name.s, 1, 2)) \in 1..31

\* the day a DD/MM/YYYY text names, read as day/month/year: days grow with it
DayOf(name) ==
    DigitsToNat(SubSeq(name.s, 7, 10)) * 10000 + DigitsToNat(SubSeq(name.s, 4, 5)) * 100
        + DigitsToNat(SubSeq(name.s, 1, 2))

\* a missing or malformed date counts as the epoch
DayOrEpoch(name) == IF IsDayMonthYear(name) THEN DayOf(name) ELSE Epoch

Reorderings(n) == {f \in [1..n -> 1..n] : \A i, j \in 1..n : f[i] = f[j] => i = j}

\* out is the records of v, each mapped to its point, in an order that is
\* ascending by day and keeps records of one day in their original order
StablySortedByDay(v, out) ==
    /\ Len(out) = Len(RecordsOf(v))
    /\ \E f \in Reorderings(Len(out)) :
          /\ \A i \in 1..Len(out) : out[i] = EarningsPoint(RecordsOf(v)[f[i]])
          /\ \A i, j \in 1..Len(out) : i < j =>
                \/ DayOf(out[i].name) < DayOf(out[j].name)
                \/ DayOf(out[i].name) = DayOf(out[j].name) /\ f[i] < f[j]

AllDated(v) == \A i \in 1..Len(RecordsOf(v)) : IsDayMonthYear(DateText(RecordsOf(v)[i]))

\* C17: normalizeProventos returns the records in ascending order of their
\* dates, DD/MM/YYYY read as day/month/year, records of equal date in their
\* original order; the output is a permutation of the input records.
C17_EarningsSortedByDate ==
    (CalledProventos /\ EarningsShape(callArg)) =>
        /\ AllDated(callArg) => ~callRet.threw /\ StablySortedByDay(callArg, callRet.pts)
        /\ ~callRet.threw =>
              /\ Len(callRet.pts) = Len(RecordsOf(callArg))
              /\ \E f \in Reorderings(Len(callRet.pts)) :
                    \A i \in 1..Len(callRet.pts) :
                        callRet.pts[i] = EarningsPoint(RecordsOf(callArg)[f[i]])

\* the dates 01/03/2023, 15/01/2023, 20/12/2022 come out as 20/12/2022,
\* 15/01/2023, 01/03/2023
C17_Witness ==
    /\ CalledProventos /\ EarningsShape(callArg)
    /\ Len(RecordsOf(callArg)) = 3
    /\ \A i \in 1..3 : DateText(RecordsOf(callArg)[i]) = InputDates[i]
    /\ ~callRet.threw
    /\ \A i \in 1..3 : callRet.pts[i].name = InputDates[4 - i]

\* C18: a record whose date is missing or malformed is ordered as if dated
\* at the epoch; the sort never raises an error and the output is in
\* ascending order of the dates so read.
C18_UndatedSortAsEpoch ==
    (CalledProventos /\ EarningsShape(callArg)) =>
        /\ ~callRet.threw
        /\ \A i, j \in 1..Len(callRet.pts) : i < j =>
              DayOrEpoch(callRet.pts[i].name) <= DayOrEpoch(callRet.pts[j].name)

(***************************************************************************)
(* Claims about the fallback and the fan-in                                *)
(***************************************************************************)
AllCallsFailed(q) == \A k \in Endpoints : qslot[q][k].cause \in {"reject", "notOk", "badJson"}

\* length exactly 6 and the last two characters are '1', '1'
EndsIn11(ticker) == Len(ticker) = 6 /\ SubSeq(ticker, 5, 6) = <<"1", "1">>

\* C19: when all six endpoint calls of a query fail, the snapshot it
\* displays has isMock = true, the category FII exactly when the ticker has
\* length 6 and ends in '11' and equity otherwise, 6 yearly points in each
\* of the five monetary series and 12 monthly earnings points.
C19_FallbackSnapshot ==
    \A q \in QueryIds :
        (Decided(q) /\ AllCallsFailed(q)) =>
            /\ data.isMock
            /\ data.categoria = (IF EndsIn11(qticker[q]) THEN "FII" ELSE "AÇÃO")
            /\ \A k \in Endpoints \ {ProventosSlot} : Len(data.series[k]) = 6
            /\ Len(data.series[ProventosSlot]) = 12

\* C20: the decision of a query, and with it the write of its snapshot, is
\* taken only in a step that finds all six endpoint calls settled; a
\* failing call never ends the query while another call is pending.
C20_DecisionAfterAllSettled ==
    [][\A q \in QueryIds :
          (qpc[q] = "fanout" /\ (qpc'[q] # "fanout" \/ data' # data \/ error' # error)) =>
              \/ \A k \in Endpoints : qslot[q][k].st = "fulfilled"
              \/ \E p \in QueryIds \ {q} : qpc'[p] # qpc[p]]_vars

\* a call has failed, another is still pending, and nothing is decided
C20_Witness ==
    \E q \in QueryIds :
        /\ qpc[q] = "fanout"
        /\ qslot[q][1].st = "fulfilled" /\ qslot[q][1].cause = "reject"
        /\ qslot[q][2].st = "pending"
        /\ data = NoData /\ loading

(***************************************************************************)
(* Claims about overlapping queries and termination                        *)
(***************************************************************************)

\* C21: the simulated-data notice is on display only together with a
\* synthetic snapshot or with no snapshot, never beside a real snapshot.
C21_NoticeOnlyWithSynthetic ==
    error.t = "simulated" => (data.t = "null" \/ data.isMock)

\* C22: loading is true exactly when at least one query is in flight.
C22_LoadingIffInFlight ==
    loading <=> \E q \in QueryIds : InFlight(q)

\* C23: provided every relay call settles, every query in flight comes to
\* its end with loading = false and a snapshot, real or synthetic, on
\* display; none stays loading forever and none ends with data = null.
C23_QueryCompletes ==
    \A q \in QueryIds :
        InFlight(q) ~> (qpc[q] = "done" /\ ~loading /\ data.t = "snapshot")

\* a query whose search call failed has ended with its snapshot on display
C23_Witness ==
    \E q \in QueryIds :
        /\ qpc[q] = "done" /\ SearchCallFailed(q)
        /\ dataWriter = q /\ data.t = "snapshot" /\ ~loading

====
